---- MODULE Spec2Model ----
(***************************************************************************)
(* Model of ocean_runner.runner.Algorithm: the stage registry              *)
(* (validate / run / save / error), the execution pipeline of execute()   *)
(* and the result holder.                                                  *)
(*                                                                         *)
(* One Algorithm instance is modelled.  The caller registers stage        *)
(* functions, calls the instance (which runs execute() to completion) and *)
(* reads the `result` property.  execute() is split at its await points:  *)
(* a stage call is invoked, runs (possibly suspending), completes, and    *)
(* only then does the engine resume.                                       *)
(***************************************************************************)
EXTENDS Naturals, Integers, Sequences, FiniteSets, TLC

\* ---------------------------------------------------------------------
\* Bounds
\* ---------------------------------------------------------------------

\* number of pipeline invocations made on the instance
MaxLoads == 2

\* ---------------------------------------------------------------------
\* Values, exceptions
\* ---------------------------------------------------------------------

\* Python's None
None == [t |-> "None", v |-> 0]

IntVal(n) == [t |-> "int", v |-> n]

\* the values a run stage of the model can return
Values == {None, IntVal(123)}

\* str(result) as used by default_save
Str(val) ==
    IF val.t = "None" THEN "None"
    ELSE IF val.v = 123 THEN "123"
    ELSE IF val.v = 42 THEN "42"
    ELSE "?"

NoExc == [cls |-> "none", origin |-> "none"]

\* an exception object: its class and the function that raised it
Exc(cls, origin) == [cls |-> cls, origin |-> origin]

\* `except Algorithm.Error as e`: only Algorithm.Error (a RuntimeError
\* subclass defined in the class body) matches the handler.
IsAlgorithmError(e) == e.cls = "Algorithm.Error"

\* ---------------------------------------------------------------------
\* Stage functions
\* ---------------------------------------------------------------------

Stages == {"validate", "run", "save", "error"}

ValidateFns == {"default_validation", "validate_async", "validate_error"}
RunFns == {"default_run", "run_123", "run_none", "run_error",
           "run_value_error"}
SaveFns == {"default_save", "save_error", "save_value_error"}
ErrorFns == {"default_error_callback", "count_errors", "error_raises"}

\* functions declared `async def` (run_in_executor awaits the coroutine);
\* the others are blocking callables run off the event loop
AsyncFns == {"validate_async", "validate_error", "run_none",
             "run_value_error", "default_save", "save_value_error",
             "error_raises"}

\* functions that read algorithm.job_details
ReadsJobDetails == {"default_validation"}

Returns(val) == [kind |-> "return", value |-> val, exc |-> NoExc]
Raises(e) == [kind |-> "raise", value |-> None, exc |-> e]
Pending == [kind |-> "none", value |-> None, exc |-> NoExc]

\* `input`: the input parameters of the job as the provider holds them:
\* "none" (loaded without a shape), "valid" or "invalid" against the shape,
\* "parsed" once read() has produced the structured value
NoJobDetails ==
    [id |-> 0, metadata |-> FALSE, files |-> FALSE, input |-> "none"]

\* what the provider can find: are the metadata (DDOs) and the files
\* collections non-empty
JobDetailsKinds ==
    {[metadata |-> m, files |-> f, input |-> i] :
        m \in BOOLEAN, f \in BOOLEAN, i \in {"none", "valid", "invalid"}}

\* the JobDetails object the n-th load_job_details call returns
JobDetailsOf(n, kind) ==
    [id |-> n, metadata |-> kind.metadata, files |-> kind.files,
     input |-> kind.input]

\* faulty variant: logs the error and returns
default_error_callback_swallows(error) == Returns(None)

default_error_callback(error) == Raises(error)

default_validation(jd) ==
    IF ~jd.metadata THEN Raises(Exc("AssertionError", "DDOs missing"))
    ELSE IF ~jd.files THEN Raises(Exc("AssertionError", "Files missing"))
    ELSE Returns(None)

\* faulty variant: a default run stage that does nothing
default_run_passes == Returns(None)

default_run == Raises(Exc("Algorithm.Error", "default_run"))

default_save == Returns(None)

\* faulty variant: the file is opened without truncating existing content
default_save_keeps(content, val) ==
    IF content = "" THEN Str(val) ELSE content

\* content of result.txt after default_save: open(..., "w+") truncates,
\* then str(result) is written
default_save_write(content, val) == Str(val)

\* ---------------------------------------------------------------------
\* Configuration and variant selection
\* ---------------------------------------------------------------------

\* what Algorithm.create is given: no config at all, or a Config whose
\* custom_input is None, the NoParameters marker or a declared model
Configs == {"no config", "Config()", "Config(NoParameters)",
            "Config(CustomInput)"}

\* config.custom_input, a missing config being replaced by Config()
custom_input_of(cfg) ==
    CASE cfg = "Config(NoParameters)" -> "NoParameters"
      [] cfg = "Config(CustomInput)" -> "CustomInput"
      [] OTHER -> "None"

\* faulty variant: the factory always builds the parametrized class
create_parametrized(cfg) == "ParametrizedAlgorithm"

\* Algorithm.create
create(cfg) ==
    IF custom_input_of(cfg) = "None"
    THEN "EmptyAlgorithm"
    ELSE "ParametrizedAlgorithm"

\* the custom input shape execute() hands to load_job_details
load_shape(cfg) ==
    IF custom_input_of(cfg) # "NoParameters"
    THEN custom_input_of(cfg)
    ELSE "None"

\* ---------------------------------------------------------------------
\* State
\* ---------------------------------------------------------------------

VARIABLES
    functions,      \* Algorithm._functions: the four stage slots
    _result,        \* Algorithm._result
    _job_details,   \* Algorithm._job_details (NoJobDetails: attribute unset)
    job_details,    \* value cached by the job_details cached_property
    outputs,        \* filesystem: state of the <base>/outputs directory
    result_txt,     \* filesystem: content of outputs/result.txt ("" absent)
    pc,             \* position of the execute() coroutine
    st,             \* per stage call: "idle", "running", "suspended", "done"
    ret,            \* per stage call: how the stage function finished
    caught,         \* exception bound by `except Algorithm.Error as e`
    called,         \* stage calls made by the current invocation, in order
    outcome,        \* how the last pipeline call ended for its caller
    decorated,      \* value returned by the last registration call
    accessed,       \* how the last read of `result` ended
    loads,          \* number of load_job_details calls so far
    run_succeeded,  \* history: some run stage has returned normally
    config,         \* what Algorithm.create was called with
    variant,        \* class of the instance built by Algorithm.create
    jd_accessed,    \* how the caller's last read of `job_details` ended
    cli_pc,         \* position of run_algorithm ("none": no CLI process)
    module,         \* what importing the CLI's target module gives
    exit_code       \* exit status of the CLI process (-1: still running)

vars == <<functions, _result, _job_details, job_details, outputs, result_txt,
          pc, st, ret, caught, called, outcome, decorated, accessed, loads,
          run_succeeded, config, variant, jd_accessed, cli_pc, module,
          exit_code>>

\* fixed at construction
construction == <<config, variant>>

\* state of the CLI process
cli == <<cli_pc, module, exit_code>>

AwaitPc == [validate |-> "await_validate", run |-> "await_run",
            save |-> "await_save", error |-> "await_error"]

\* Functions.__init__
Functions_init ==
    [validate |-> "default_validation", run |-> "default_run",
     save |-> "default_save", error |-> "default_error_callback"]

\* Algorithm.create(cfg) followed by Algorithm.__init__
Constructed(cfg) ==
    /\ config = cfg
    /\ variant = create(cfg)
    /\ _result = None
    /\ _job_details = NoJobDetails
    /\ job_details = NoJobDetails
    /\ outputs \in {"missing", "present", "blocked"}
    /\ result_txt = ""
    /\ pc = "idle"
    /\ st = [s \in Stages |-> "idle"]
    /\ ret = [s \in Stages |-> Pending]
    /\ caught = NoExc
    /\ called = <<>>
    /\ outcome = Pending
    /\ decorated = "none"
    /\ accessed = Pending
    /\ loads = 0
    /\ run_succeeded = FALSE
    /\ jd_accessed = "none"

\* an instance built from a Config without custom input (as the fixtures
\* of the test suite do), used directly by its caller
Init ==
    /\ Constructed("Config()")
    /\ functions = Functions_init
    /\ cli_pc = "none"
    /\ module = "none"
    /\ exit_code = -1

\* ---------------------------------------------------------------------
\* Registration (decorators)
\* ---------------------------------------------------------------------

instance == <<_result, _job_details, job_details, outputs, result_txt, pc,
              loads, run_succeeded>>

\* the record of the previous pipeline call and result read is per caller
\* step: a registration call starts a new one
NewStep ==
    /\ st' = [s \in Stages |-> "idle"]
    /\ ret' = [s \in Stages |-> Pending]
    /\ caught' = NoExc
    /\ called' = <<>>
    /\ outcome' = Pending
    /\ accessed' = Pending

validate(fn) ==
    /\ pc = "idle"
    /\ functions' = [functions EXCEPT !.validate = fn]
    /\ decorated' = fn
    /\ NewStep
    /\ UNCHANGED instance
    /\ UNCHANGED <<construction, jd_accessed, cli>>

\* faulty variant: run() assigning the validate slot
run_wrong_slot(fn) ==
    /\ pc = "idle"
    /\ functions' = [functions EXCEPT !.validate = fn]
    /\ decorated' = fn
    /\ NewStep
    /\ UNCHANGED instance
    /\ UNCHANGED <<construction, jd_accessed, cli>>

run(fn) ==
    /\ pc = "idle"
    /\ functions' = [functions EXCEPT !.run = fn]
    /\ decorated' = fn
    /\ NewStep
    /\ UNCHANGED instance
    /\ UNCHANGED <<construction, jd_accessed, cli>>

save_results(fn) ==
    /\ pc = "idle"
    /\ functions' = [functions EXCEPT !.save = fn]
    /\ decorated' = fn
    /\ NewStep
    /\ UNCHANGED instance
    /\ UNCHANGED <<construction, jd_accessed, cli>>

on_error(fn) ==
    /\ pc = "idle"
    /\ functions' = [functions EXCEPT !.error = fn]
    /\ decorated' = fn
    /\ NewStep
    /\ UNCHANGED instance
    /\ UNCHANGED <<construction, jd_accessed, cli>>

\* ---------------------------------------------------------------------
\* Result holder
\* ---------------------------------------------------------------------

\* faulty variant: the property without its None check
result_get_unchecked(held) == Returns(held)

\* the `result` property
result_get(held) ==
    IF held = None
    THEN Raises(Exc("Algorithm.Error", "result"))
    ELSE Returns(held)

result ==
    /\ pc = "idle"
    /\ accessed' = result_get(_result)
    /\ UNCHANGED <<functions, _result, _job_details, job_details, outputs,
                   result_txt, pc, st, ret, caught, called, outcome,
                   decorated, loads, run_succeeded>>
    /\ UNCHANGED <<construction, jd_accessed, cli>>

\* ---------------------------------------------------------------------
\* Execution pipeline
\* ---------------------------------------------------------------------

\* _job_details.read() of the provider: Success with the structured
\* value when the input parameters fit the shape, else Failure
read(jd) ==
    IF jd.input = "valid"
    THEN [ok |-> TRUE, value |-> [jd EXCEPT !.input = "parsed"]]
    ELSE [ok |-> FALSE, value |-> jd]

\* faulty variant: the property filled in at construction with a placeholder
job_details_error_placeholder == NoExc

\* the exception a read of the `job_details` property ends with (NoExc:
\* it returns).  Before the first load the attribute _job_details does
\* not exist; the parametrized variant raises the Failure of read().
job_details_error ==
    IF job_details # NoJobDetails THEN NoExc
    ELSE IF _job_details = NoJobDetails
         THEN Exc("AttributeError", "job_details")
    ELSE IF variant = "ParametrizedAlgorithm" /\ ~read(_job_details).ok
         THEN Exc("ParseError", "read")
    ELSE NoExc

\* the `job_details` property, a cached_property: the first read that
\* returns stores its value on the instance, later reads return the
\* stored value.  EmptyAlgorithm: self._job_details itself;
\* ParametrizedAlgorithm: the value of read().
job_details_get ==
    IF job_details # NoJobDetails THEN job_details
    ELSE IF variant = "ParametrizedAlgorithm" /\ read(_job_details).ok
         THEN read(_job_details).value
    ELSE _job_details

\* the caller reads algorithm.job_details
job_details_read ==
    /\ pc = "idle"
    /\ cli_pc = "none"
    /\ IF job_details_error # NoExc
       THEN /\ jd_accessed' = job_details_error.cls
            /\ UNCHANGED job_details
       ELSE /\ jd_accessed' = "returned"
            /\ job_details' = job_details_get
    /\ UNCHANGED <<functions, _result, _job_details, outputs, result_txt,
                   pc, st, ret, caught, called, outcome, decorated, accessed,
                   loads, run_succeeded, construction, cli>>

\* execute(), up to and including load_job_details returning
execute_load(kind) ==
    /\ pc = "idle"
    /\ cli_pc \in {"none", "call"}
    /\ loads < MaxLoads
    /\ loads' = loads + 1
    /\ (kind.input = "none") <=> (load_shape(config) = "None")
    /\ _job_details' = JobDetailsOf(loads + 1, kind)
    /\ pc' = "validate"
    /\ NewStep
    /\ decorated' = "none"
    /\ UNCHANGED <<functions, _result, job_details, outputs, result_txt,
                   run_succeeded>>
    /\ cli_pc' = IF cli_pc = "call" THEN "in_call" ELSE cli_pc
    /\ UNCHANGED <<construction, jd_accessed, module, exit_code>>

\* faulty variant: load_job_details called inside the try block
execute_load_fails_caught ==
    /\ pc = "idle"
    /\ cli_pc \in {"none", "call"}
    /\ loads < MaxLoads
    /\ loads' = loads + 1
    /\ pc' = "error"
    /\ st' = [s \in Stages |-> "idle"]
    /\ ret' = [s \in Stages |-> Pending]
    /\ caught' = Exc("ProviderError", "load_job_details")
    /\ called' = <<>>
    /\ outcome' = Pending
    /\ accessed' = Pending
    /\ decorated' = "none"
    /\ UNCHANGED <<functions, _result, _job_details, job_details, outputs,
                   result_txt, run_succeeded>>
    /\ cli_pc' = IF cli_pc = "call" THEN "in_call" ELSE cli_pc
    /\ UNCHANGED <<construction, jd_accessed, module, exit_code>>

\* execute() when load_job_details raises: the call is outside the try
execute_load_fails ==
    /\ pc = "idle"
    /\ cli_pc \in {"none", "call"}
    /\ loads < MaxLoads
    /\ loads' = loads + 1
    /\ pc' = "idle"
    /\ st' = [s \in Stages |-> "idle"]
    /\ ret' = [s \in Stages |-> Pending]
    /\ caught' = NoExc
    /\ called' = <<>>
    /\ outcome' = Raises(Exc("ProviderError", "load_job_details"))
    /\ accessed' = Pending
    /\ decorated' = "none"
    /\ UNCHANGED <<functions, _result, _job_details, job_details, outputs,
                   result_txt, run_succeeded>>
    /\ cli_pc' = IF cli_pc = "call" THEN "in_call" ELSE cli_pc
    /\ UNCHANGED <<construction, jd_accessed, module, exit_code>>

\* the function a stage call of the current invocation was made with
InvokedFn(s) ==
    IF \E i \in 1..Len(called) : called[i].stage = s
    THEN (CHOOSE c \in {called[i] : i \in 1..Len(called)} : c.stage = s).fn
    ELSE "none"

\* run_in_executor(self._functions.<s>, ...): the stage function held in
\* the slot is started; the engine then waits for it
Invoke(s) ==
    /\ pc = s
    /\ st[s] = "idle"
    /\ st' = [st EXCEPT ![s] = "running"]
    /\ called' = Append(called, [stage |-> s, fn |-> functions[s]])
    /\ pc' = AwaitPc[s]
    /\ UNCHANGED <<functions, _result, _job_details, job_details, outputs,
                   result_txt, ret, caught, outcome, decorated, accessed,
                   loads, run_succeeded>>
    /\ UNCHANGED <<construction, jd_accessed, cli>>

\* an async stage function awaits (e.g. asyncio.sleep) and yields control
Suspend(s) ==
    /\ st[s] = "running"
    /\ InvokedFn(s) \in AsyncFns
    /\ st' = [st EXCEPT ![s] = "suspended"]
    /\ UNCHANGED <<functions, _result, _job_details, job_details, outputs,
                   result_txt, pc, ret, caught, called, outcome, decorated,
                   accessed, loads, run_succeeded>>
    /\ UNCHANGED <<construction, jd_accessed, cli>>

\* how the body of a stage function ends
StageResult(fn) ==
    CASE fn = "default_validation" ->
            IF job_details_error # NoExc
            THEN Raises(job_details_error)
            ELSE default_validation(job_details_get)
      [] fn = "validate_async" -> Returns(None)
      [] fn = "validate_error" ->
            Raises(Exc("Algorithm.Error", "validate_error"))
      [] fn = "default_run" -> default_run
      [] fn = "run_123" -> Returns(IntVal(123))
      [] fn = "run_none" -> Returns(None)
      [] fn = "run_error" -> Raises(Exc("Algorithm.Error", "run_error"))
      [] fn = "run_value_error" ->
            Raises(Exc("ValueError", "run_value_error"))
      [] fn = "default_save" -> default_save
      [] fn = "save_error" -> Raises(Exc("Algorithm.Error", "save_error"))
      [] fn = "save_value_error" ->
            Raises(Exc("ValueError", "save_value_error"))
      [] fn = "default_error_callback" -> default_error_callback(caught)
      [] fn = "count_errors" -> Returns(None)
      [] fn = "error_raises" -> Raises(Exc("RuntimeError", "error_raises"))
      [] OTHER -> Returns(None)

\* the stage function runs to its end (returning or raising)
Complete(s) ==
    /\ st[s] \in {"running", "suspended"}
    /\ st' = [st EXCEPT ![s] = "done"]
    /\ ret' = [ret EXCEPT ![s] = StageResult(InvokedFn(s))]
    /\ job_details' = IF InvokedFn(s) \in ReadsJobDetails
                           /\ job_details_error = NoExc
                      THEN job_details_get ELSE job_details
    /\ result_txt' = IF InvokedFn(s) = "default_save"
                     THEN default_save_write(result_txt, _result)
                     ELSE result_txt
    /\ run_succeeded' = (run_succeeded \/
                         (s = "run" /\ StageResult(InvokedFn(s)).kind = "return"))
    /\ UNCHANGED <<functions, _result, _job_details, outputs, pc, caught,
                   called, outcome, decorated, accessed, loads>>
    /\ UNCHANGED <<construction, jd_accessed, cli>>

\* faulty variant: the stage call is started but not awaited
Awaited_not(s) == TRUE

\* `await`: the engine resumes only when the awaited stage call is over
Awaited(s) == st[s] = "done"

\* faulty variant: an exception of a stage call is dropped and the try
\* body continues
Resume_continues(s) ==
    /\ s \in {"validate", "run", "save"}
    /\ pc = AwaitPc[s]
    /\ Awaited(s)
    /\ CASE s = "validate" ->
              /\ pc' = "run"
              /\ UNCHANGED <<_result, outcome, caught>>
         [] s = "run" ->
              /\ _result' = ret[s].value
              /\ pc' = "mkdir"
              /\ UNCHANGED <<outcome, caught>>
         [] s = "save" ->
              /\ outcome' = Returns(_result)
              /\ pc' = "idle"
              /\ UNCHANGED <<_result, caught>>
    /\ UNCHANGED <<functions, _job_details, job_details, outputs, result_txt,
                   st, ret, called, decorated, accessed, loads,
                   run_succeeded>>
    /\ UNCHANGED <<construction, jd_accessed, cli>>

\* the try body continues after a stage call that returned, or leaves the
\* try with the exception the stage call raised
Resume(s) ==
    /\ s \in {"validate", "run", "save"}
    /\ pc = AwaitPc[s]
    /\ Awaited(s)
    /\ IF ret[s].kind = "raise"
       THEN IF IsAlgorithmError(ret[s].exc)
            THEN /\ caught' = ret[s].exc
                 /\ pc' = "error"
                 /\ UNCHANGED <<_result, outcome>>
            ELSE /\ outcome' = Raises(ret[s].exc)
                 /\ pc' = "idle"
                 /\ UNCHANGED <<_result, caught>>
       ELSE CASE s = "validate" ->
                    /\ pc' = "run"
                    /\ UNCHANGED <<_result, outcome, caught>>
              [] s = "run" ->
                    /\ _result' = ret[s].value
                    /\ pc' = "mkdir"
                    /\ UNCHANGED <<outcome, caught>>
              [] s = "save" ->
                    /\ outcome' = Returns(_result)
                    /\ pc' = "idle"
                    /\ UNCHANGED <<_result, caught>>
    /\ UNCHANGED <<functions, _job_details, job_details, outputs, result_txt,
                   st, ret, called, decorated, accessed, loads,
                   run_succeeded>>
    /\ UNCHANGED <<construction, jd_accessed, cli>>

\* faulty variant: the directory is not created before save
Mkdir_skipped ==
    /\ pc = "mkdir"
    /\ pc' = "save"
    /\ UNCHANGED <<functions, _result, _job_details, job_details, outputs,
                   result_txt, st, ret, caught, called, outcome, decorated,
                   accessed, loads, run_succeeded>>
    /\ UNCHANGED <<construction, jd_accessed, cli>>

\* self._job_details.paths.outputs.mkdir(exist_ok=True)
Mkdir ==
    /\ pc = "mkdir"
    /\ IF outputs = "blocked"
       THEN /\ outcome' = Raises(Exc("OSError", "mkdir"))
            /\ pc' = "idle"
            /\ UNCHANGED outputs
       ELSE /\ outputs' = "present"
            /\ pc' = "save"
            /\ UNCHANGED outcome
    /\ UNCHANGED <<functions, _result, _job_details, job_details, result_txt,
                   st, ret, caught, called, decorated, accessed, loads,
                   run_succeeded>>
    /\ UNCHANGED <<construction, jd_accessed, cli>>

\* the except clause after the error stage call is over, and `return`
ResumeError ==
    /\ pc = AwaitPc["error"]
    /\ Awaited("error")
    /\ outcome' = IF ret["error"].kind = "raise"
                  THEN Raises(ret["error"].exc)
                  ELSE Returns(_result)
    /\ pc' = "idle"
    /\ UNCHANGED <<functions, _result, _job_details, job_details, outputs,
                   result_txt, st, ret, caught, called, decorated, accessed,
                   loads, run_succeeded>>
    /\ UNCHANGED <<construction, jd_accessed, cli>>

Next ==
    \/ \E fn \in ValidateFns \ {Functions_init.validate} : validate(fn)
    \/ \E fn \in RunFns \ {Functions_init.run} : run(fn)
    \/ \E fn \in SaveFns \ {Functions_init.save} : save_results(fn)
    \/ \E fn \in ErrorFns \ {Functions_init.error} : on_error(fn)
    \/ result
    \/ \E kind \in JobDetailsKinds : execute_load(kind)
    \/ execute_load_fails
    \/ \E s \in Stages : Invoke(s)
    \/ \E s \in Stages : Suspend(s)
    \/ \E s \in Stages : Complete(s)
    \/ \E s \in Stages : Resume(s)
    \/ Mkdir
    \/ ResumeError

Spec == Init /\ [][Next]_vars

\* ---------------------------------------------------------------------
\* Instances of every configuration
\* ---------------------------------------------------------------------

\* an instance built by Algorithm.create from any configuration
InitConfig ==
    /\ \E cfg \in Configs : Constructed(cfg)
    /\ functions = Functions_init
    /\ cli_pc = "none"
    /\ module = "none"
    /\ exit_code = -1

NextConfig ==
    \/ \E fn \in RunFns \ {Functions_init.run} : run(fn)
    \/ job_details_read
    \/ \E kind \in JobDetailsKinds : execute_load(kind)
    \/ execute_load_fails
    \/ \E s \in Stages : Invoke(s)
    \/ \E s \in Stages : Suspend(s)
    \/ \E s \in Stages : Complete(s)
    \/ \E s \in Stages : Resume(s)
    \/ Mkdir
    \/ ResumeError

SpecConfig == InitConfig /\ [][NextConfig]_vars

\* ---------------------------------------------------------------------
\* CLI entrypoint
\* ---------------------------------------------------------------------

\* what importing the target module and reading its `algorithm`
\* attribute gives
Modules == {"ImportError", "AttributeError", "not an Algorithm",
            "Algorithm", "other exception"}

\* get_algorithm: the instance, None, or an exception that is neither
\* ImportError nor AttributeError and so leaves the function
get_algorithm(m) ==
    CASE m = "Algorithm" -> "Algorithm"
      [] m \in {"ImportError", "AttributeError", "not an Algorithm"} -> "None"
      [] OTHER -> "raises"

cli_frame == <<functions, _result, _job_details, job_details, result_txt,
               pc, st, ret, caught, called, outcome, decorated, accessed,
               loads, run_succeeded, construction, jd_accessed, module>>

\* setup_environment: mkdir(parents=True, exist_ok=True) of outputs/
setup_environment ==
    /\ cli_pc = "start"
    /\ IF outputs = "blocked"
       THEN /\ cli_pc' = "setup_failed"
            /\ exit_code' = 1
            /\ UNCHANGED outputs
       ELSE /\ cli_pc' = "get_algorithm"
            /\ outputs' = "present"
            /\ UNCHANGED exit_code
    /\ UNCHANGED cli_frame

\* faulty variant: the else branch reports and returns
run_algorithm_returns ==
    /\ cli_pc = "get_algorithm"
    /\ IF get_algorithm(module) = "Algorithm"
       THEN /\ cli_pc' = "call"
            /\ UNCHANGED exit_code
       ELSE /\ cli_pc' = "exited"
            /\ exit_code' = 0
    /\ UNCHANGED <<cli_frame, outputs>>

\* run_algorithm after setup_environment: get_algorithm, then either the
\* call of the instance or sys.exit(1); an exception leaving
\* get_algorithm ends the process with status 1
run_algorithm ==
    /\ cli_pc = "get_algorithm"
    /\ IF get_algorithm(module) = "Algorithm"
       THEN /\ cli_pc' = "call"
            /\ UNCHANGED exit_code
       ELSE /\ cli_pc' = "exited"
            /\ exit_code' = 1
    /\ UNCHANGED <<cli_frame, outputs>>

\* algorithm() is over: main returns (status 0) or the exception of the
\* pipeline call ends the process (status 1)
cli_exit ==
    /\ cli_pc = "in_call"
    /\ pc = "idle"
    /\ cli_pc' = "exited"
    /\ exit_code' = IF outcome.kind = "raise" THEN 1 ELSE 0
    /\ UNCHANGED <<cli_frame, outputs>>

\* the CLI process before run_algorithm: the target module defines
\* whatever it defines; an Algorithm it holds has its stage functions
\* registered at import
InitCLI ==
    /\ Constructed("Config()")
    /\ functions \in [validate : ValidateFns, run : RunFns, save : SaveFns,
                       error : ErrorFns]
    /\ cli_pc = "start"
    /\ module \in Modules
    /\ exit_code = -1

NextCLI ==
    \/ setup_environment
    \/ run_algorithm
    \/ cli_exit
    \/ \E kind \in JobDetailsKinds : execute_load(kind)
    \/ execute_load_fails
    \/ \E s \in Stages : Invoke(s)
    \/ \E s \in Stages : Suspend(s)
    \/ \E s \in Stages : Complete(s)
    \/ \E s \in Stages : Resume(s)
    \/ Mkdir
    \/ ResumeError

SpecCLI == InitCLI /\ [][NextCLI]_vars

\* a step of the running pipeline call
PipelineStep ==
    \/ \E s \in Stages : Invoke(s)
    \/ \E s \in Stages : Complete(s)
    \/ \E s \in Stages : Resume(s)
    \/ Mkdir
    \/ ResumeError

\* asyncio.run drives the coroutine until it is done, and every stage
\* function that was started runs to its end
FairSpec == SpecCLI /\ WF_vars(PipelineStep)

TypeOK ==
    /\ pc \in {"idle", "validate", "run", "mkdir", "save", "error"} \cup
              {AwaitPc[s] : s \in Stages}
    /\ loads \in 0..MaxLoads

\* ---------------------------------------------------------------------
\* Properties
\* ---------------------------------------------------------------------

PipelineStages == {"validate", "run", "save"}

\* the pipeline call has ended for its caller
Ended == pc = "idle" /\ outcome.kind # "none"

\* number of on_error calls made by the current invocation
ErrorCalls == Cardinality({i \in 1..Len(called) : called[i].stage = "error"})

InProgress == {s \in Stages : st[s] \in {"running", "suspended"}}

\* C1: every exception raised inside validate, run or save, whatever its
\* type, is handed to the registered on_error stage before the pipeline
\* call ends.
C1_EveryExceptionRouted ==
    \A s \in PipelineStages :
        (Ended /\ st[s] = "done" /\ ret[s].kind = "raise")
            => (ErrorCalls >= 1 /\ caught = ret[s].exc)

\* C2: the stages of one run are strictly sequential: at most one stage
\* call is in progress, run starts only after validate is over, save only
\* after run is over, for blocking and async stage functions alike.
C2_StrictlySequential ==
    /\ Cardinality(InProgress) <= 1
    /\ st["run"] # "idle" => st["validate"] = "done"
    /\ st["save"] # "idle" => st["run"] = "done"
    /\ \A i, j \in 1..Len(called) :
          (called[i].stage = "validate" /\ called[j].stage = "run") => i < j
    /\ \A i, j \in 1..Len(called) :
          (called[i].stage = "run" /\ called[j].stage = "save") => i < j

C2_Witness ==
    /\ st["save"] = "suspended"
    /\ InvokedFn("validate") = "validate_async"
    /\ InvokedFn("run") = "run_123"

\* C3: an exception raised by on_error reaches the caller of the pipeline;
\* with the default on_error a run stage raising E makes the call raise E.
C3_OnErrorRaisePropagates ==
    /\ (Ended /\ st["error"] = "done" /\ ret["error"].kind = "raise")
          => outcome = Raises(ret["error"].exc)
    /\ (Ended /\ st["run"] = "done" /\ ret["run"].kind = "raise"
              /\ functions.error = "default_error_callback")
          => outcome = Raises(ret["run"].exc)

C3_Witness ==
    /\ Ended
    /\ InvokedFn("run") = "run_error"
    /\ InvokedFn("error") = "default_error_callback"
    /\ outcome = Raises(Exc("Algorithm.Error", "run_error"))

\* C4: with a counting, non-raising on_error and a run stage that raises,
\* the call returns normally, on_error ran exactly once and there is no
\* Result afterwards.
C4_CountingCallbackOnce ==
    (Ended /\ functions.error = "count_errors"
           /\ st["run"] = "done" /\ ret["run"].kind = "raise")
        => /\ outcome = Returns(None)
           /\ ErrorCalls = 1
           /\ _result = None

\* C5: when the error path was taken and on_error suppressed the error,
\* the call reports no Result and the Result Holder is empty, whichever
\* stage raised.
C5_SuppressedMeansNoResult ==
    (Ended /\ st["error"] = "done" /\ ret["error"].kind = "return")
        => (outcome = Returns(None) /\ _result = None)

\* C6: while no run stage has completed successfully on the instance,
\* reading `result` raises Algorithm.Error and never returns a value.
C6_ResultUnavailableBeforeRun ==
    (accessed.kind # "none" /\ ~run_succeeded)
        => accessed = Raises(Exc("Algorithm.Error", "result"))

C6_Witness ==
    /\ accessed.kind = "raise"
    /\ ~run_succeeded
    /\ loads = 2
    /\ Ended
    /\ st["run"] = "done"

\* C7: after a run in which validate, run and save all completed and run
\* returned V, the call returned V and every read of `result` returns V,
\* for every V including None.
C7_ResultIsRunValue ==
    (Ended /\ \A s \in PipelineStages : st[s] = "done" /\ ret[s].kind = "return")
        => /\ outcome = Returns(ret["run"].value)
           /\ accessed.kind # "none" => accessed = Returns(ret["run"].value)

\* C8: a failing job-details load reaches the caller directly: no
\* JobDetails are stored, no stage and no on_error is invoked.
C8_LoadFailurePropagates ==
    /\ (outcome.exc.cls = "ProviderError" \/ caught.cls = "ProviderError")
          => /\ outcome = Raises(Exc("ProviderError", "load_job_details"))
             /\ pc = "idle"
             /\ called = <<>>
             /\ \A s \in Stages : st[s] = "idle"
             /\ _job_details.id # loads

C8_Witness ==
    /\ outcome = Raises(Exc("ProviderError", "load_job_details"))
    /\ functions.error = "count_errors"
    /\ functions.run = "run_123"

\* C9: with no run stage registered, an invocation whose validation passes
\* gets Algorithm.Error from the default run stage: it is routed to
\* on_error, save is not invoked, no Result becomes available, and with the
\* default on_error the call raises that Algorithm.Error.
C9_DefaultRunFails ==
    (functions.run = "default_run" /\ st["run"] = "done")
        => /\ ret["run"] = Raises(Exc("Algorithm.Error", "default_run"))
           /\ InvokedFn("save") = "none"
           /\ _result = None
           /\ result_get(_result).kind = "raise"
           /\ Ended => /\ ErrorCalls = 1
                       /\ caught = ret["run"].exc
                       /\ functions.error = "default_error_callback"
                            => outcome = Raises(ret["run"].exc)

C9_Witness ==
    /\ Ended
    /\ functions.run = "default_run"
    /\ InvokedFn("validate") = "default_validation"
    /\ outcome = Raises(Exc("Algorithm.Error", "default_run"))

FnsOf ==
    [validate |-> ValidateFns, run |-> RunFns, save |-> SaveFns,
     error |-> ErrorFns]

\* C10: a slot changes only by its own registration call, which stores the
\* function it was given and returns it, leaving the other slots, the
\* result and the job details alone; a slot never registered holds its
\* default; execute() invokes the function held in the slot.
C10_SlotsState ==
    /\ \A s \in Stages : functions[s] \in FnsOf[s]
    /\ decorated # "none" =>
          \E s \in Stages : decorated \in FnsOf[s] /\ functions[s] = decorated
    /\ \A i \in 1..Len(called) : called[i].fn = functions[called[i].stage]

C10_SlotsStep ==
    \A s \in Stages :
        functions'[s] # functions[s] =>
            /\ pc = "idle" /\ pc' = "idle"
            /\ decorated' = functions'[s]
            /\ decorated' \in FnsOf[s] \ {Functions_init[s]}
            /\ \A t \in Stages \ {s} : functions'[t] = functions[t]
            /\ _result' = _result
            /\ _job_details' = _job_details
            /\ job_details' = job_details

C10_RegistrationFrame == []C10_SlotsState /\ [][C10_SlotsStep]_vars

C10_Witness ==
    /\ functions.validate = "validate_async"
    /\ functions.run = "run_123"
    /\ functions.error = "default_error_callback"
    /\ pc = "await_save"
    /\ InvokedFn("validate") = "validate_async"
    /\ InvokedFn("run") = "run_123"
    /\ InvokedFn("save") = "default_save"

\* C11: the `job_details` accessor always yields the JobDetails of the most
\* recent load, never those of an earlier execution.
C11_JobDetailsFresh ==
    (_job_details # NoJobDetails /\ job_details_error = NoExc)
        => job_details_get.id = _job_details.id

\* C13: the default validate stage passes exactly when the loaded
\* JobDetails have non-empty metadata and files, metadata being checked
\* first; when it fails, run and save are not invoked.
C13_DefaultValidation ==
    (st["validate"] = "done" /\ InvokedFn("validate") = "default_validation")
        => /\ ret["validate"] = default_validation(_job_details)
           /\ ret["validate"].kind = "raise"
                => (st["run"] = "idle" /\ st["save"] = "idle")

\* C14: after a successful run with Result R saved by the default save
\* stage, outputs/result.txt holds exactly str(R), whatever it held before.
C14_DefaultSaveWrites ==
    (Ended /\ InvokedFn("save") = "default_save"
           /\ \A s \in PipelineStages : st[s] = "done" /\ ret[s].kind = "return")
        => (outputs = "present" /\ result_txt = Str(ret["run"].value))

C14_Witness ==
    /\ Ended
    /\ loads = 2
    /\ InvokedFn("save") = "default_save"
    /\ InvokedFn("run") = "run_none"
    /\ st["save"] = "done"
    /\ run_succeeded
    /\ result_txt = "None"

StagesCalled == [i \in 1..Len(called) |-> called[i].stage]

PipelineOrder == <<"validate", "run", "save">>

PcEdges ==
    {<<"idle", "validate">>, <<"validate", "await_validate">>,
     <<"await_validate", "run">>, <<"run", "await_run">>,
     <<"await_run", "mkdir">>, <<"mkdir", "save">>,
     <<"save", "await_save">>, <<"await_save", "idle">>,
     <<"await_validate", "error">>, <<"await_run", "error">>,
     <<"await_save", "error">>, <<"error", "await_error">>,
     <<"await_error", "idle">>,
     <<"await_validate", "idle">>, <<"await_run", "idle">>,
     <<"mkdir", "idle">>}

\* C17: one execution goes through load, validate, run, save in this
\* order, each at most once; after a stage raised no later stage is
\* invoked, and only a run stage that returned sets the Result.
C17_OrderState ==
    /\ \E k \in 0..3 :
          \/ StagesCalled = SubSeq(PipelineOrder, 1, k)
          \/ k >= 1 /\ StagesCalled = Append(SubSeq(PipelineOrder, 1, k), "error")
    /\ called # <<>> => _job_details.id = loads
    /\ ret["validate"].kind = "raise" => (st["run"] = "idle" /\ st["save"] = "idle")
    /\ ret["run"].kind = "raise" => st["save"] = "idle"
    /\ st["error"] # "idle" =>
          \E s \in PipelineStages :
              /\ ret[s].kind = "raise"
              /\ StagesCalled[Len(StagesCalled) - 1] = s

C17_OrderStep ==
    /\ pc' # pc => <<pc, pc'>> \in PcEdges
    /\ _result' # _result =>
          (pc = "await_run" /\ st["run"] = "done" /\ ret["run"].kind = "return")

C17_StageOrder == []C17_OrderState /\ [][C17_OrderStep]_vars

C17_Witness ==
    /\ Ended
    /\ InvokedFn("validate") = "validate_async"
    /\ ret["run"].kind = "raise"
    /\ InvokedFn("error") = "count_errors"
    /\ st["error"] = "done"
    /\ st["save"] = "idle"

\* C18: the save stage is only ever invoked with the output directory in
\* place; creating it is harmless when it already exists, and when it
\* cannot be created save is not invoked.
C18_DirState ==
    /\ st["save"] # "idle" => outputs = "present"
    /\ outcome.exc = Exc("OSError", "mkdir")
          => (outputs = "blocked" /\ st["save"] = "idle" /\ st["run"] = "done")

C18_DirStep ==
    /\ (pc = "mkdir" /\ outputs = "present" /\ pc' # pc)
          => (pc' = "save" /\ outputs' = "present")
    /\ (pc = "mkdir" /\ outputs = "blocked" /\ pc' # pc) => pc' = "idle"
    /\ pc' = "save" => (pc = "mkdir" /\ ret["run"].kind = "return")

C18_OutputDirExists == []C18_DirState /\ [][C18_DirStep]_vars

C18_Witness ==
    /\ st["save"] = "done"
    /\ InvokedFn("save") = "save_error"
    /\ outputs = "present"
    /\ loads = 2

\* C19: a pipeline call whose stages all terminate ends, and when it ends
\* no stage call is running or pending and on_error, if invoked, is over.
C19_EndState ==
    pc = "idle" => \A s \in Stages : st[s] \in {"idle", "done"}

C19_Terminates == []C19_EndState /\ ((pc # "idle") ~> (pc = "idle"))

C19_Witness ==
    /\ Ended
    /\ InvokedFn("validate") = "validate_async"
    /\ InvokedFn("run") = "run_error"
    /\ InvokedFn("error") = "error_raises"
    /\ st["error"] = "done"

\* C20: a call that fails before its run stage completes, on an instance
\* holding the Result of an earlier run, with on_error swallowing, returns
\* no result and leaves no Result to read.
C20_NoStaleResult ==
    (Ended /\ run_succeeded
           /\ st["error"] = "done" /\ ret["error"].kind = "return"
           /\ ret["run"].kind # "return")
        => (outcome = Returns(None) /\ result_get(_result).kind = "raise")

\* C12: create builds an EmptyAlgorithm exactly when no custom input is
\* declared (no config, or custom_input None), a ParametrizedAlgorithm
\* otherwise; the Empty variant's job_details is the provider's object as
\* loaded.
C12_VariantState ==
    /\ variant \in {"EmptyAlgorithm", "ParametrizedAlgorithm"}
    /\ variant = "EmptyAlgorithm" <=> config \in {"no config", "Config()"}
    /\ (variant = "EmptyAlgorithm" /\ job_details # NoJobDetails)
          => (job_details.input = "none" /\ job_details.id \in 1..loads)

C12_VariantStep ==
    (variant = "EmptyAlgorithm" /\ job_details' # job_details)
        => job_details' = _job_details

C12_VariantSelection == []C12_VariantState /\ [][C12_VariantStep]_vars

C12_Witness ==
    /\ config = "no config"
    /\ variant = "EmptyAlgorithm"
    /\ Ended
    /\ jd_accessed = "returned"
    /\ job_details = _job_details

\* C15: reading job_details before any load has stored JobDetails raises
\* an error and returns nothing, for either variant.
C15_JobDetailsBeforeLoad ==
    (jd_accessed # "none" /\ _job_details = NoJobDetails)
        => (jd_accessed = "AttributeError" /\ job_details = NoJobDetails)

C15_Witness ==
    /\ jd_accessed = "AttributeError"
    /\ variant = "ParametrizedAlgorithm"
    /\ _job_details = NoJobDetails
    /\ loads = 1

\* C16: the CLI calls the located Algorithm exactly once; when the import
\* fails, the attribute is missing or is not an Algorithm, nothing is
\* called and the process exits with status 1.
C16_CliRunsOnce ==
    /\ loads <= 1
    /\ (cli_pc = "exited" /\ module = "Algorithm") => loads = 1
    /\ loads = 1 => (module = "Algorithm" /\ cli_pc \in {"in_call", "exited"})
    /\ module # "Algorithm" =>
          /\ loads = 0 /\ pc = "idle" /\ called = <<>>
          /\ cli_pc \in {"exited", "setup_failed"} => exit_code = 1

C16_Witness ==
    /\ cli_pc = "exited"
    /\ module = "not an Algorithm"
    /\ exit_code = 1
    /\ functions.run = "run_123"

\* C21: the variant chosen at construction agrees with the custom input
\* shape execute() hands to the provider: once JobDetails are loaded, the
\* instance is a ParametrizedAlgorithm exactly when they were loaded with
\* a shape, and a ParametrizedAlgorithm whose job_details was read after
\* a load never read JobDetails loaded without a shape.
C21_VariantAgreesWithShape ==
    /\ _job_details # NoJobDetails =>
          ((variant = "ParametrizedAlgorithm")
               <=> (_job_details.input # "none"))
    /\ (variant = "ParametrizedAlgorithm"
            /\ jd_accessed \in {"returned", "ParseError"})
          => _job_details.input # "none"

====
